---- MODULE Spec2Model ----
(***************************************************************************)
(* ModelFrame (expandas/core/frame.py): a data frame that tags one column  *)
(* as the target and the others as data, and forwards fit/predict/...      *)
(* calls to an estimator, caching the estimator and its results.           *)
(*                                                                         *)
(* Python values are records with a "kind" field:                          *)
(*   None, scalar (a column identifier), list (values without row labels), *)
(*   Series (name, values, index), dict (named columns without row         *)
(*   labels), DataFrame and ModelFrame (columns, cells, index; a           *)
(*   ModelFrame also carries target_name).                                 *)
(* Column identifiers and row labels are strings; the integer labels       *)
(* 0, 1, 2, ... that pandas generates are written "0", "1", "2", ...       *)
(* A raised exception is a record whose kind is the exception's class.     *)
(***************************************************************************)
EXTENDS Integers, Sequences, FiniteSets, TLC

VARIABLES
    frame,        \* the column store (self._data): a DataFrame record, None
                  \* before construction, or a Series record after
                  \* _update_inplace was handed a Series
    target_name,  \* self._target_name
    estimator,    \* self._estimator
    predicted,    \* self._predicted
    proba,        \* self._proba
    log_proba,    \* self._log_proba
    decision,     \* self._decision
    last          \* the last operation: its name, outcome, the number of
                  \* warnings it issued, and the invocations it made of the
                  \* estimator's method

vars == <<frame, target_name, estimator, predicted, proba, log_proba, decision, last>>

(***************************************************************************)
(* Bounds                                                                  *)
(***************************************************************************)
MaxLen == 3     \* inputs have 2..MaxLen rows
MaxWidth == 3   \* column stores wider than this are not followed further

(***************************************************************************)
(* Values                                                                  *)
(***************************************************************************)
None == [kind |-> "None"]

NoName == "<None>"          \* the name of an unnamed Series (Python None)

TARGET_NAME == ".target"

Scalar(id) == [kind |-> "scalar", id |-> id]

List(vals) == [kind |-> "list", values |-> vals]

Series(name, vals, idx) ==
    [kind |-> "Series", name |-> name, values |-> vals, index |-> idx]

Dict(cols, cells) == [kind |-> "dict", columns |-> cols, cells |-> cells]

DataFrame(cols, cells, idx) ==
    [kind |-> "DataFrame", columns |-> cols, cells |-> cells, index |-> idx]

ModelFrame(cols, cells, idx, tn) ==
    [kind |-> "ModelFrame", columns |-> cols, cells |-> cells, index |-> idx,
     target_name |-> tn]

ValueError(msg) == [kind |-> "ValueError", msg |-> msg]

\* pandas.core.indexing.IndexingError and IndexError: exceptions that are no
\* ValueError, TypeError or AttributeError
IndexingError == [kind |-> "Exception", msg |-> "Too many indexers"]

IsFrame(x) == x.kind \in {"DataFrame", "ModelFrame"}

IsError(x) == x.kind \in {"ValueError", "TypeError", "AttributeError", "Exception"}

Range(s) == {s[i] : i \in 1..Len(s)}

RECURSIVE Flatten(_)
Flatten(ss) == IF ss = <<>> THEN <<>> ELSE Head(ss) \o Flatten(Tail(ss))

\* the positions of label k in the label sequence s, in order
RECURSIVE Positions(_, _, _)
Positions(s, k, from) ==
    IF from > Len(s) THEN <<>>
    ELSE (IF s[from] = k THEN <<from>> ELSE <<>>) \o Positions(s, k, from + 1)

(***************************************************************************)
(* pandas operations the code calls                                        *)
(***************************************************************************)
\* com.is_list_like: iterables other than strings
is_list_like(x) == x.kind \in {"list", "Series", "dict", "DataFrame", "ModelFrame"}

\* pd.RangeIndex-like default row labels 0..n-1
RangeIndex(n) == [i \in 1..n |-> ToString(i - 1)]

\* len(dict of equal-length lists): the common length of its columns
DictLen(d) == IF d.cells = <<>> THEN 0 ELSE Len(d.cells[1])

\* a one-element list given together with an index is repeated over it
Repeat(vals, n) == [i \in 1..n |-> vals[1]]

\* pd.DataFrame(data) and pd.DataFrame(data, index=index) for a dict of lists;
\* idx = None stands for no index argument.  One-element columns are repeated
\* over a longer index, another length mismatch raises.
pd_DataFrame(d, idx) ==
    IF idx.kind = "None"
    THEN DataFrame(d.columns, d.cells, RangeIndex(DictLen(d)))
    ELSE IF DictLen(d) = Len(idx.labels)
    THEN DataFrame(d.columns, d.cells, idx.labels)
    ELSE IF DictLen(d) = 1
    THEN DataFrame(d.columns,
                   [j \in 1..Len(d.cells) |-> Repeat(d.cells[j], Len(idx.labels))],
                   idx.labels)
    ELSE ValueError("Shape of passed values does not match the index")

Labels(idx) == [kind |-> "Index", labels |-> idx]

\* What pd.Series(frame, ...) does with a two-dimensional argument is decided
\* inside pandas, not by this code: the callers choose among its outcomes.
Undetermined == [kind |-> "Undetermined"]

\* pd.Series(values, name=name, index=index) for a list of values;
\* idx = None stands for no index argument.  A one-element list is repeated
\* over a longer index, another length mismatch raises.
pd_Series(t, name, idx) ==
    IF IsFrame(t) THEN Undetermined
    ELSE IF idx.kind = "None"
    THEN Series(name, t.values, RangeIndex(Len(t.values)))
    ELSE IF Len(t.values) = Len(idx.labels)
    THEN Series(name, t.values, idx.labels)
    ELSE IF Len(t.values) = 1
    THEN Series(name, Repeat(t.values, Len(idx.labels)), idx.labels)
    ELSE ValueError("Length of passed values does not match the index")

\* pd.Series(series, name=name): the same values and row labels, renamed
pd_Series_rename(s, name) == Series(name, s.values, s.index)

\* Series.to_frame()
to_frame(s) == DataFrame(<<s.name>>, <<s.values>>, s.index)

\* the columns an object contributes to pd.concat(..., axis=1): a Series is one
\* column under its name, an unnamed Series gets the next integer label
ConcatColumns(x) ==
    IF x.kind = "Series" THEN <<IF x.name = NoName THEN "0" ELSE x.name>>
    ELSE x.columns

ConcatCells(x) == IF x.kind = "Series" THEN <<x.values>> ELSE x.cells

\* pd.concat([target, data], axis=1) of objects with equal row labels
pd_concat(t, d) ==
    DataFrame(ConcatColumns(t) \o ConcatColumns(d),
              ConcatCells(t) \o ConcatCells(d), d.index)

\* self.columns: the first axis of the column store.  The store of a frame
\* has the column identifiers there; a one-dimensional store (see
\* _update_inplace) has one axis, its row labels.
columns(f) == IF f.kind = "Series" THEN f.index ELSE f.columns

\* df.loc[:, keys] for a list of labels: for every key, in order, every column
\* carrying that label.  A one-dimensional store cannot take two indexers:
\* pandas raises.
loc_list(f, keys) ==
    IF f.kind = "Series" THEN IndexingError
    ELSE
    LET pos == Flatten([i \in 1..Len(keys) |-> Positions(f.columns, keys[i], 1)])
    IN DataFrame([i \in 1..Len(pos) |-> f.columns[pos[i]]],
                 [i \in 1..Len(pos) |-> f.cells[pos[i]]], f.index)

\* df.loc[:, key] for one label: a Series when one column carries the label,
\* a frame of all columns carrying it when several do
loc_label(f, key) ==
    IF f.kind = "Series" THEN IndexingError
    ELSE
    LET pos == Positions(f.columns, key, 1)
    IN IF Len(pos) = 1
       THEN Series(key, f.cells[pos[1]], f.index)
       ELSE DataFrame([i \in 1..Len(pos) |-> key],
                      [i \in 1..Len(pos) |-> f.cells[pos[i]]], f.index)

\* pd.DataFrame.__init__(self, df): a frame as it is, a named Series as a
\* one-column frame
DataFrame_init(df) ==
    IF df.kind = "Series" THEN to_frame(df)
    ELSE DataFrame(df.columns, df.cells, df.index)

(***************************************************************************)
(* ModelFrame: construction                                                *)
(***************************************************************************)
Converted(d, t) == [kind |-> "converted", data |-> d, target |-> t]

_maybe_convert_data(d, t, tn) ==
    LET init_df == IsFrame(d)
        init_target == t.kind = "Series"
        listTarget(dd) ==
            IF is_list_like(t)
            THEN IF dd.kind # "None"
                 THEN pd_Series(t, tn, Labels(dd.index))
                 ELSE pd_Series(t, tn, None)
            ELSE t
    IN IF ~init_df /\ ~init_target
       THEN LET dd == IF d.kind # "None" THEN pd_DataFrame(d, None) ELSE d
                tt == listTarget(dd)
            IN IF IsError(tt) THEN tt ELSE Converted(dd, tt)
       ELSE IF ~init_df
       THEN LET dd == IF d.kind # "None" THEN pd_DataFrame(d, Labels(t.index)) ELSE d
            IN IF IsError(dd) THEN dd ELSE Converted(dd, t)
       ELSE IF ~init_target
       THEN LET tt == listTarget(d)
            IN IF IsError(tt) THEN tt ELSE Converted(d, tt)
       ELSE Converted(d, t)

_concat_target(d, t) ==
    IF d.kind = "None" /\ t.kind = "None"
    THEN ValueError("ModelFrame must have either data or target")
    ELSE IF d.kind = "None" THEN t
    ELSE IF t.kind = "None" THEN d
    ELSE IF Len(d.index) # Len(t.index)
    THEN ValueError("data and target must have same length")
    ELSE IF d.index # t.index
    THEN ValueError("data and target must have equal index")
    ELSE pd_concat(t, d)

\* "target in data.columns" / "target in self.columns": the identifier given
\* as target is one of the columns
SpecifiedTargetIncluded(cols, id) == id \in Range(cols)

Constructed(f, tn) == [kind |-> "constructed", frame |-> f, target_name |-> tn]

__init__(d, t) ==
    IF d.kind = "None" /\ t.kind = "None"
    THEN ValueError("ModelFrame must have either data or target")
    ELSE IF d.kind = "None" /\ ~is_list_like(t)
    THEN ValueError("target must be list-like when data is None")
    ELSE
    LET unnamed == d.kind # "ModelFrame" /\ t.kind = "Series" /\ t.name = NoName
        tn == IF d.kind = "ModelFrame" THEN d.target_name
              ELSE IF t.kind = "Series"
              THEN (IF t.name = NoName THEN TARGET_NAME ELSE t.name)
              ELSE TARGET_NAME
        t0 == IF unnamed THEN pd_Series_rename(t, TARGET_NAME) ELSE t
        conv == _maybe_convert_data(d, t0, tn)
    IN IF IsError(conv) THEN conv
       ELSE IF conv.target.kind # "None" /\ ~is_list_like(conv.target)
       THEN IF SpecifiedTargetIncluded(conv.data.columns, conv.target.id)
            THEN Constructed(DataFrame_init(conv.data), conv.target.id)
            ELSE ValueError("Specified target is not included in data")
       ELSE LET df == _concat_target(conv.data, conv.target)
            IN IF IsError(df) THEN df
               ELSE Constructed(DataFrame_init(df), tn)

(***************************************************************************)
(* ModelFrame: data and target views                                       *)
(***************************************************************************)
has_target(f, tn) == tn \in Range(columns(f))

_data_columns(f, tn) == SelectSeq(columns(f), LAMBDA c : c # tn)

has_data(f, tn) == Len(_data_columns(f, tn)) > 0

\* a slice is built by the constructor without a target, so it is a
\* ModelFrame whose target_name is the default
Slice(x) ==
    IF x.kind = "DataFrame"
    THEN ModelFrame(x.columns, x.cells, x.index, TARGET_NAME)
    ELSE x

data(f, tn) ==
    IF has_data(f, tn) THEN Slice(loc_list(f, _data_columns(f, tn))) ELSE None

target(f, tn) ==
    IF has_target(f, tn) THEN Slice(loc_label(f, tn)) ELSE None

(***************************************************************************)
(* ModelFrame: assignment and deletion of data and target.  Each returns   *)
(* the outcome, the column store and target_name it leaves, and whether a  *)
(* warning was issued.                                                     *)
(***************************************************************************)
Result(outcome, f, tn, warned) ==
    [outcome |-> outcome, frame |-> f, target_name |-> tn, warned |-> warned]

\* NDFrame._update_inplace(result): self._data = result._data, whatever the
\* dimension of result
_update_inplace(result) ==
    IF result.kind = "Series" THEN result
    ELSE DataFrame(result.columns, result.cells, result.index)

data_deleter(f, tn) ==
    IF has_target(f, tn)
    THEN IF IsError(target(f, tn))
         THEN Result(target(f, tn).kind, f, tn, FALSE)
         ELSE IF target(f, tn).kind = "Series"
         THEN Result("ok", _update_inplace(to_frame(target(f, tn))), tn, FALSE)
         ELSE Result("AttributeError", f, tn, FALSE)  \* a frame has no to_frame
    ELSE Result("ValueError", f, tn, FALSE)

\* "self.target_name in data.columns": the passed data has a column named as
\* the target
NameCollision(tn, cols) == tn \in Range(cols)

\* pandasRaises: whether pd.Series raises when the conversion is handed a
\* two-dimensional target (see Undetermined)
data_setter(f, tn, d, pandasRaises) ==
    IF d.kind = "None" THEN data_deleter(f, tn)
    ELSE IF d.kind = "ModelFrame" /\ has_target(d, d.target_name)
    THEN Result("ValueError", f, tn, FALSE)
    ELSE IF IsError(target(f, tn))
    THEN Result(target(f, tn).kind, f, tn, FALSE)
    ELSE
    LET conv == _maybe_convert_data(d, target(f, tn), tn)
    IN IF IsError(conv) THEN Result(conv.kind, f, tn, FALSE)
       ELSE IF conv.target.kind = "Undetermined" /\ pandasRaises
       THEN Result("ValueError", f, tn, FALSE)
       ELSE IF NameCollision(tn, conv.data.columns)
       THEN Result("ValueError", f, tn, FALSE)
       ELSE IF has_target(f, tn)
       THEN LET df == _concat_target(conv.data, target(f, tn))
            IN IF IsError(df) THEN Result(df.kind, f, tn, FALSE)
               ELSE Result("ok", _update_inplace(df), tn, FALSE)
       ELSE Result("ok", _update_inplace(conv.data), tn, FALSE)

target_deleter(f, tn) ==
    IF has_data(f, tn)
    THEN IF IsError(data(f, tn))
         THEN Result(data(f, tn).kind, f, tn, FALSE)
         ELSE Result("ok", _update_inplace(data(f, tn)), tn, FALSE)
    ELSE Result("ValueError", f, tn, FALSE)

target_setter(f, tn, t) ==
    IF t.kind = "None" THEN target_deleter(f, tn)
    ELSE
    LET \* allow to update target_name only when target attribute doesn't exist
        tn1 == IF ~has_target(f, tn) /\ t.kind = "Series" /\ t.name # NoName
               THEN t.name ELSE tn
    IN IF ~is_list_like(t)
       THEN IF SpecifiedTargetIncluded(columns(f), t.id)
            THEN Result("ok", f, t.id, FALSE)
            ELSE Result("ValueError", f, tn1, FALSE)
       ELSE
       LET warned == t.kind = "Series" /\ t.name # tn1
           t1 == IF t.kind = "Series"
                 THEN (IF warned THEN pd_Series_rename(t, tn1) ELSE t)
                 ELSE LET conv == _maybe_convert_data(data(f, tn1), t, tn1)
                      IN IF IsError(conv) THEN conv ELSE conv.target
       IN IF IsError(data(f, tn1)) THEN Result(data(f, tn1).kind, f, tn1, warned)
          ELSE IF IsError(t1) THEN Result(t1.kind, f, tn1, warned)
          ELSE LET df == _concat_target(data(f, tn1), t1)
               IN IF IsError(df) THEN Result(df.kind, f, tn1, warned)
                  ELSE Result("ok", _update_inplace(df), tn1, warned)

(***************************************************************************)
(* Inputs                                                                  *)
(***************************************************************************)
Lens == 1..MaxLen

\* row labels: the default ones, and the two-row default in reverse order
Reversed == <<"1", "0">>

FrameIndexes == {RangeIndex(2), Reversed}

SeriesIndexes == {RangeIndex(n) : n \in Lens} \cup {Reversed}

\* k columns of n values each, all distinct, marked by v
Cells(v, k, n) == [j \in 1..k |-> [i \in 1..n |-> 100 * v + 10 * j + i]]

ColumnLists == {<<>>, <<"a">>, <<"a", TARGET_NAME>>}

FrameInputs ==
    {DataFrame(c, Cells(1, Len(c), Len(x)), x) :
        c \in ColumnLists, x \in FrameIndexes}

ModelFrameInputs ==
    {ModelFrame(c, Cells(3, Len(c), 2), RangeIndex(2), tn) :
        c \in ColumnLists, tn \in {TARGET_NAME, "a"}}

DictInputs == {Dict(<<"a">>, Cells(4, 1, n)) : n \in Lens}

DataInputs == {None} \cup FrameInputs \cup ModelFrameInputs \cup DictInputs

\* identifiers: two column names, a row label and a name no table uses
ScalarInputs == {Scalar(c) : c \in {"a", "b", "0", TARGET_NAME}}

ListInputs == {List(Cells(5, 1, n)[1]) : n \in Lens}

SeriesInputs ==
    {Series(nm, Cells(7, 1, Len(x))[1], x) :
        nm \in {NoName, "a", "y"}, x \in SeriesIndexes}

TargetInputs == {None} \cup ScalarInputs \cup ListInputs \cup SeriesInputs

\* the value assigned to target_name directly: the name the Series inputs
\* carry, which is a column of some tables and of others not
NameInputs == {Scalar("y")}

(***************************************************************************)
(* State machine: the table                                                *)
(***************************************************************************)
NoCalls == <<>>

Last(op, arg, outcome, warnings, calls) ==
    [op |-> op, arg |-> arg, outcome |-> outcome, warnings |-> warnings,
     calls |-> calls]

\* what an operation's record keeps of its argument: its kind and its name
Arg(x) ==
    [kind |-> x.kind,
     name |-> IF x.kind = "Series" THEN x.name
              ELSE IF x.kind = "scalar" THEN x.id
              ELSE IF x.kind = "ModelFrame" THEN x.target_name
              ELSE NoName]

Width(f) == IF f.kind = "Series" THEN 1 ELSE Len(f.columns)

Init ==
    /\ frame = None
    /\ target_name = TARGET_NAME
    /\ estimator = "None"
    /\ predicted = None
    /\ proba = None
    /\ log_proba = None
    /\ decision = None
    /\ last = Last("none", Arg(None), "ok", 0, NoCalls)

\* the table was constructed
Exists == frame.kind # None.kind

Caches == <<estimator, predicted, proba, log_proba, decision>>

\* ModelFrame(data, target)
Construct(d, t) ==
    /\ frame.kind = "None"
    /\ LET r == __init__(d, t)
       IN IF IsError(r)
          THEN /\ last' = Last("init", Arg(t), r.kind, 0, NoCalls)
               /\ UNCHANGED <<frame, target_name>>
          ELSE /\ Width(r.frame) <= MaxWidth
               /\ frame' = r.frame
               /\ target_name' = r.target_name
               /\ last' = Last("init", Arg(t), "ok", 0, NoCalls)
    /\ UNCHANGED Caches

Apply(op, arg, r) ==
    /\ Width(r.frame) <= MaxWidth
    /\ frame' = r.frame
    /\ target_name' = r.target_name
    /\ last' = Last(op, arg, r.outcome, IF r.warned THEN 1 ELSE 0, NoCalls)
    /\ UNCHANGED Caches

\* self.data = d
SetData(d, pandasRaises) ==
    /\ Exists
    /\ Apply("set_data", Arg(d), data_setter(frame, target_name, d, pandasRaises))

\* del self.data
DelData ==
    /\ Exists
    /\ Apply("del_data", Arg(None), data_deleter(frame, target_name))

\* self.target = t
SetTarget(t) ==
    /\ Exists
    /\ Apply("set_target", Arg(t), target_setter(frame, target_name, t))

\* del self.target
DelTarget ==
    /\ Exists
    /\ Apply("del_target", Arg(None), target_deleter(frame, target_name))

\* self.target_name = value: the property's setter stores any value and
\* does not look at the column store
SetTargetName(value) ==
    /\ Exists
    /\ Apply("set_target_name", Arg(value), Result("ok", frame, value.id, FALSE))

NextFrame ==
    \/ \E d \in DataInputs, t \in TargetInputs : Construct(d, t)
    \/ \E d \in DataInputs, pandasRaises \in BOOLEAN : SetData(d, pandasRaises)
    \/ DelData
    \/ \E t \in TargetInputs : SetTarget(t)
    \/ DelTarget
    \/ \E value \in NameInputs : SetTargetName(value)

SpecFrame == Init /\ [][NextFrame]_vars

(***************************************************************************)
(* Estimator dispatch                                                      *)
(***************************************************************************)
Methods ==
    {"fit", "predict", "fit_predict", "predict_proba", "predict_log_proba",
     "decision_function", "transform", "fit_transform", "inverse_transform",
     "score"}

\* An estimator object: its identity, its class name, the methods it has and
\* those of them whose signature takes y.
Stub ==
    [id |-> "stub", class |-> "Stub", methods |-> {"fit", "predict"},
     accepts_y |-> {"fit"}]

Classifier ==
    [id |-> "clf", class |-> "Classifier", methods |-> Methods,
     accepts_y |-> {"fit", "score", "fit_predict", "fit_transform", "transform"}]

\* Python None, as the table holds it before any estimator was used
NoEstimator ==
    [id |-> "None", class |-> "NoneType", methods |-> {}, accepts_y |-> {}]

Estimators == {Stub, Classifier}

EstimatorObj(id) == CHOOSE e \in Estimators \cup {NoEstimator} : e.id = id

\* what one invocation of an estimator's method ends in
MethodOutcomes == {"ok", "TypeError", "ValueError"}

Invocation(y, outcome) == [y |-> y, outcome |-> outcome]

\* mutant: the method is not looked up before the call
_check_attr_skipped(e, m) == TRUE

\* hasattr(estimator, method_name)
_check_attr(e, m) == m \in e.methods

\* the method names _mapper has an entry for
_mapper == {"fit", "predict"}

\* the entry of _mapper for the method and the estimator's class; for a
\* method name that is no key of _mapper the local variable is never bound
_get_mapper(e, m) ==
    IF m \notin _mapper THEN "UnboundLocalError"
    ELSE IF m = "predict" /\ e.class = "GaussianProcess" THEN "_predict"
    ELSE "None"

\* o1, o2: what the first and the second invocation of the method end in, when
\* the method's own code runs
_call(f, tn, e, m, o1, o2) ==
    IF ~_check_attr(e, m) THEN [outcome |-> "ValueError", calls |-> NoCalls]
    ELSE IF IsError(data(f, tn))
    THEN [outcome |-> data(f, tn).kind, calls |-> NoCalls]
    ELSE IF data(f, tn).kind = "None"   \* None has no attribute values
    THEN [outcome |-> "AttributeError", calls |-> NoCalls]
    ELSE IF has_target(f, tn)
    THEN LET first == IF m \in e.accepts_y THEN o1 ELSE "TypeError"
         IN IF first = "TypeError"
            THEN [outcome |-> o2,
                  calls |-> <<Invocation(TRUE, first), Invocation(FALSE, o2)>>]
            ELSE [outcome |-> first, calls |-> <<Invocation(TRUE, first)>>]
    ELSE [outcome |-> o1, calls |-> <<Invocation(FALSE, o1)>>]

\* the table's caches
Cache(e, p, pr, lp, dc) ==
    [estimator |-> e, predicted |-> p, proba |-> pr, log_proba |-> lp,
     decision |-> dc]

Self == Cache(estimator, predicted, proba, log_proba, decision)

\* mutant: the caches are reset whichever estimator is attached
estimator_setter_always_resets(c, value) == Cache(value, None, None, None, None)

\* mutant: a new estimator is attached without unsetting the cached results
estimator_setter_keeps_results(c, value) == [c EXCEPT !.estimator = value]

\* the estimator property's setter
estimator_setter(c, value) ==
    IF c.estimator # value
    THEN Cache(value, None, None, None, None)
    ELSE c

\* a result of estimator e's method m as the table keeps it: wrapped, or as
\* the method returned it when the wrapping raised a ValueError
Wrapped(e, m) == [kind |-> "result", by |-> e.id, method |-> m]

Called(outcome, calls, c, warnings) ==
    [outcome |-> outcome, calls |-> calls, cache |-> c, warnings |-> warnings]

\* what building the ModelSeries or ModelFrame around a result ends in: it is
\* built, or a ValueError is raised, or another exception (the result has no
\* shape, the estimator no classes_, the data is not one-dimensional)
WrapOutcomes == {"ok", "ValueError", "Exception"}

\* fit, predict, ..., score: _call, then the wrapping of the result.
\* _wrap_predicted and _wrap_probability catch a ValueError of the wrapping,
\* warn and keep the raw result; _wrap_transform catches nothing.
dispatch(f, tn, c, e, m, o1, o2, wrap) ==
    LET r == _call(f, tn, e, m, o1, o2)
        c1 == estimator_setter(c, e.id)
        warnings == IF wrap = "ValueError" THEN 1 ELSE 0
    IN IF r.outcome # "ok" THEN Called(r.outcome, r.calls, c, 0)
       ELSE IF m \in {"predict", "fit_predict"}
       THEN IF wrap = "Exception" THEN Called(wrap, r.calls, c1, 0)
            ELSE Called("ok", r.calls, [c1 EXCEPT !.predicted = Wrapped(e, m)],
                        warnings)
       ELSE IF m \in {"predict_proba", "predict_log_proba", "decision_function"}
       THEN IF wrap = "Exception" THEN Called(wrap, r.calls, c1, 0)
            ELSE Called("ok", r.calls,
                    IF m = "predict_proba"
                    THEN [c1 EXCEPT !.proba = Wrapped(e, m)]
                    ELSE IF m = "predict_log_proba"
                    THEN [c1 EXCEPT !.log_proba = Wrapped(e, m)]
                    ELSE [c1 EXCEPT !.decision = Wrapped(e, m)],
                    warnings)
       ELSE IF m \in {"transform", "fit_transform", "inverse_transform"}
       THEN Called(wrap, r.calls, c1, 0)
       ELSE Called("ok", r.calls, c1, 0)

EstimatorArg(e) == [kind |-> "estimator", name |-> e.id]

Store(op, e, r) ==
    /\ estimator' = r.cache.estimator
    /\ predicted' = r.cache.predicted
    /\ proba' = r.cache.proba
    /\ log_proba' = r.cache.log_proba
    /\ decision' = r.cache.decision
    /\ last' = Last(op, EstimatorArg(e), r.outcome, r.warnings, r.calls)
    /\ UNCHANGED <<frame, target_name>>

\* self.fit(e), self.predict(e), ..., self.score(e)
\* predict asks _get_mapper first; the function it finds for an estimator of
\* class GaussianProcess is defined outside this file and is not followed
Dispatch(e, m, o1, o2, wrap) ==
    /\ Exists
    /\ m = "predict" => _get_mapper(e, m) = "None"
    /\ Store(m, e, dispatch(frame, target_name, Self, e, m, o1, o2, wrap))

\* the method behind each cached property, and the cache's value
PropertyMethod(prop) ==
    CASE prop = "predicted" -> "predict"
      [] prop = "proba" -> "predict_proba"
      [] prop = "log_proba" -> "predict_log_proba"
      [] prop = "decision" -> "decision_function"

Properties == {"predicted", "proba", "log_proba", "decision"}

\* self.predicted, self.proba, self.log_proba, self.decision: an unset cache
\* is filled by a call on the cached estimator, and when that call returned a
\* warning tells of the automatic call
ReadProperty(prop, o1, o2, wrap) ==
    /\ Exists
    /\ prop = "predicted" => _get_mapper(EstimatorObj(estimator), "predict") = "None"
    /\ IF Self[prop].kind = "None"
       THEN LET r == dispatch(frame, target_name, Self, EstimatorObj(estimator),
                             PropertyMethod(prop), o1, o2, wrap)
            IN Store(prop, EstimatorObj(estimator),
                     IF r.outcome = "ok"
                     THEN [r EXCEPT !.warnings = @ + 1]
                     ELSE r)
       ELSE Store(prop, EstimatorObj(estimator), Called("ok", NoCalls, Self, 0))

\* self.estimator = value: the setter does not look at the column store
SetEstimator(value) ==
    /\ Exists
    /\ Store("set_estimator", value,
             Called("ok", NoCalls, estimator_setter(Self, value.id), 0))

NextCall ==
    \/ \E e \in Estimators, m \in Methods, o1, o2 \in MethodOutcomes,
          wrap \in WrapOutcomes : Dispatch(e, m, o1, o2, wrap)
    \/ \E prop \in Properties, o1, o2 \in MethodOutcomes, wrap \in WrapOutcomes :
          ReadProperty(prop, o1, o2, wrap)
    \/ \E value \in Estimators \cup {NoEstimator} : SetEstimator(value)

\* the tables the dispatch is explored on: data only, data and target, target
\* only, a frame without columns, and the target-only table after its target
\* was assigned once more (a one-dimensional store)
CallData == {None} \cup {d \in FrameInputs : d.index = RangeIndex(2) /\ Len(d.columns) < 2}

CallTargets == {None} \cup {t \in ListInputs : Len(t.values) = 2}

InitCall ==
    /\ \E d \in CallData, t \in CallTargets, again \in BOOLEAN :
          /\ ~IsError(__init__(d, t))
          /\ IF again
             THEN /\ d.kind = "None"
                  /\ LET c == __init__(d, t)
                         r == target_setter(c.frame, c.target_name, t)
                     IN /\ frame = r.frame
                        /\ target_name = r.target_name
                        /\ last = Last("set_target", Arg(t), r.outcome, 0, NoCalls)
             ELSE /\ frame = __init__(d, t).frame
                  /\ target_name = __init__(d, t).target_name
                  /\ last = Last("init", Arg(t), "ok", 0, NoCalls)
    /\ estimator = "None"
    /\ predicted = None
    /\ proba = None
    /\ log_proba = None
    /\ decision = None

SpecCall == InitCall /\ [][NextCall]_vars

Next == NextFrame \/ NextCall

Spec == Init /\ [][Next]_vars

(***************************************************************************)
(* Properties                                                              *)
(***************************************************************************)
\* the row labels and the columns a constructor's data argument brings
DataColumns(d) == d.columns

DataCells(d) == d.cells

DataIndex(d) == IF d.kind = "dict" THEN RangeIndex(DictLen(d)) ELSE d.index

\* the values of the one column named tn
TargetValues(f, tn) == loc_label(f, tn).values

\* the columns a store holds: a one-dimensional store holds the one column it
\* was made of, under that column's name
StoredColumns(f) == IF f.kind = "Series" THEN <<f.name>> ELSE f.columns

\* the values the store holds under the name tn
StoredTarget(f, tn) ==
    IF f.kind = "Series"
    THEN (IF f.name = tn THEN Series(tn, f.values, f.index) ELSE None)
    ELSE IF tn \in Range(f.columns)
    THEN loc_label(f, tn)
    ELSE None

\* C1: a target given as an identifier N that is one of the columns becomes
\* target_name, construction and assignment leave the columns and their
\* contents as they are and N is then no data column; an N that is no column
\* is refused with a ValueError, and an assignment then keeps target_name.
C1_TargetByIdentifier ==
    [][/\ (last'.op = "set_target" /\ last'.arg.kind = "scalar") =>
            \A t \in ScalarInputs : SetTarget(t) =>
                IF t.id \in Range(StoredColumns(frame))
                THEN /\ last'.outcome = "ok"
                     /\ target_name' = t.id
                     /\ frame' = frame
                     /\ t.id \notin Range(_data_columns(frame', target_name'))
                ELSE /\ last'.outcome = "ValueError"
                     /\ target_name' = target_name
                     /\ frame' = frame
       /\ (last'.op = "init" /\ last'.arg.kind = "scalar") =>
            \A d \in DataInputs \ {None}, t \in ScalarInputs : Construct(d, t) =>
                IF t.id \in Range(DataColumns(d))
                THEN /\ last'.outcome = "ok"
                     /\ target_name' = t.id
                     /\ frame'.columns = DataColumns(d)
                     /\ frame'.cells = DataCells(d)
                     /\ t.id \notin Range(_data_columns(frame', target_name'))
                ELSE /\ last'.outcome = "ValueError"
                     /\ frame' = None
      ]_vars

\* C2: deleting target (or assigning None to it) succeeds exactly when there
\* are data columns and leaves exactly them; deleting data (or assigning None
\* to it) succeeds exactly when there is a target column and leaves exactly
\* it; otherwise a ValueError is raised and the columns are unchanged.
C2_DeleteLeavesTheOtherPart ==
    [][/\ (DelTarget \/ SetTarget(None)) =>
            IF has_data(frame, target_name)
            THEN /\ last'.outcome = "ok"
                 /\ frame'.kind = "DataFrame"
                 /\ frame'.columns = _data_columns(frame, target_name)
            ELSE /\ last'.outcome = "ValueError"
                 /\ frame' = frame
       /\ (DelData \/ \E pandasRaises \in BOOLEAN : SetData(None, pandasRaises)) =>
            IF has_target(frame, target_name)
            THEN /\ last'.outcome = "ok"
                 /\ frame'.kind = "DataFrame"
                 /\ frame'.columns = <<target_name>>
            ELSE /\ last'.outcome = "ValueError"
                 /\ frame' = frame
      ]_vars

\* C3: on a table with a target column, assigning to target an array of the
\* table's length (a Series with the table's row labels, or a list) replaces
\* the target column's values, keeps target_name and leaves the data columns,
\* their contents and the row labels as they were, also on a table without
\* data columns.
C3_TargetReassignment ==
    [][(last'.op = "set_target" /\ last'.arg.kind \in {"list", "Series"}) =>
        \A t \in ListInputs \cup SeriesInputs :
            (/\ SetTarget(t)
             /\ has_target(frame, target_name)
             /\ Len(t.values) = Len(frame.index)
             /\ t.kind = "Series" => t.index = frame.index) =>
                /\ last'.outcome = "ok"
                /\ frame'.kind = "DataFrame"
                /\ target_name' = target_name
                /\ frame'.index = frame.index
                /\ TargetValues(frame', target_name') = t.values
                /\ data(frame', target_name') = data(frame, target_name)
      ]_vars

\* the cache a dispatch method stores its result in
StoredBy(m) ==
    CASE m \in {"predict", "fit_predict"} -> "predicted"
      [] m = "predict_proba" -> "proba"
      [] m = "predict_log_proba" -> "log_proba"
      [] m = "decision_function" -> "decision"
      [] OTHER -> "none"

\* the estimator method an operation dispatches to
MethodOf(op) == IF op \in Properties THEN PropertyMethod(op) ELSE op

\* C4 as stated: after every successful dispatch call with estimator E the
\* cached estimator is E and every result cached before the call is unset,
\* except the one the call stores.
C4_EveryCallResets ==
    [][(last'.op \in Methods /\ last'.outcome = "ok") =>
        /\ estimator' = last'.arg.name
        /\ \A p \in Properties :
              (Self[p].kind # "None" /\ p # StoredBy(last'.op)) =>
                  Self'[p].kind = "None"
      ]_vars

\* C4 amended: after every successful dispatch call with estimator E the
\* cached estimator is E and the call's own cache holds its result; every
\* other result cached before the call is unset when E is not the estimator
\* object cached before the call, and kept when E is that same object.
C4_CallResetsOnNewEstimator ==
    [][(last'.op \in Methods /\ last'.outcome = "ok") =>
        /\ estimator' = last'.arg.name
        /\ \A p \in Properties :
              IF p = StoredBy(last'.op)
              THEN Self'[p] = Wrapped(EstimatorObj(last'.arg.name), last'.op)
              ELSE IF estimator = last'.arg.name
              THEN Self'[p] = Self[p]
              ELSE Self'[p].kind = "None"
      ]_vars

\* C4 witness: a successful predict with the estimator already cached has
\* left the probabilities cached before it in place.
C4_Witness ==
    /\ last.op = "predict" /\ last.outcome = "ok"
    /\ estimator = last.arg.name
    /\ predicted.kind = "result"
    /\ proba.kind = "result"

\* C5: a dispatch call naming a method the estimator lacks, and a read of
\* predicted, proba, log_proba or decision that has to call a method the
\* cached estimator (or None) lacks, raises a ValueError, invokes nothing
\* and leaves the cached estimator and the four caches as they were.
C5_MissingMethod ==
    [][(/\ last'.op \in Methods \cup Properties
        /\ last'.op \in Properties => Self[last'.op].kind = "None"
        /\ MethodOf(last'.op) \notin EstimatorObj(last'.arg.name).methods) =>
            /\ last'.outcome = "ValueError"
            /\ last'.calls = <<>>
            /\ Self' = Self
      ]_vars

\* C5 witness: proba was read on a table on which no estimator had been used.
C5_Witness ==
    /\ last.op = "proba" /\ last.arg.name = "None"
    /\ last.outcome = "ValueError"
    /\ estimator = "None" /\ proba.kind = "None"

\* C6: assigning data never alters the target: it fails with a ValueError and
\* changes nothing when the table carries a target column named as one of the
\* incoming columns or the incoming data is a ModelFrame with a target;
\* otherwise a successful assignment makes the incoming columns the data
\* columns and keeps the target column's values and target_name; a table
\* without a target column accepts data that has a column named as the unset
\* target_name.
C6_DataAssignment ==
    [][(last'.op = "set_data" /\ last'.arg.kind # "None") =>
        \A d \in {x \in DataInputs : Arg(x) = last'.arg}, pandasRaises \in BOOLEAN :
            SetData(d, pandasRaises) =>
            LET held == StoredTarget(frame, target_name)
                carried == /\ held.kind # "None"
                           /\ target_name \in Range(DataColumns(d))
                tagged == /\ d.kind = "ModelFrame"
                          /\ d.target_name \in Range(DataColumns(d))
            IN /\ target_name' = target_name
               /\ StoredTarget(frame', target_name') = held
               /\ IF carried \/ tagged
                  THEN last'.outcome = "ValueError" /\ frame' = frame
                  ELSE last'.outcome = "ok" =>
                          /\ _data_columns(frame', target_name') = DataColumns(d)
                          /\ loc_list(frame', DataColumns(d)).cells = DataCells(d)
               /\ (held.kind = "None" /\ ~tagged) => last'.outcome = "ok"
      ]_vars

\* C7: construction from data and a Series target raises a ValueError exactly
\* when the target's length differs from the data's length or its row labels
\* differ from the data's row labels (data without row labels: exactly when
\* the lengths differ); a list target takes the data's row labels by position
\* and is never refused when the lengths agree.
C7_ConstructionAlignment ==
    [][(last'.op = "init" /\ last'.arg.kind \in {"list", "Series"}) =>
        /\ \A d \in DataInputs \ {None}, t \in SeriesInputs : Construct(d, t) =>
              /\ last'.outcome \in {"ok", "ValueError"}
              /\ last'.outcome = "ValueError" <=>
                    \/ Len(t.index) # Len(DataIndex(d))
                    \/ (d.kind # "dict" /\ t.index # DataIndex(d))
              /\ last'.outcome = "ok" => frame'.index = t.index
        /\ \A d \in DataInputs \ {None}, t \in ListInputs : Construct(d, t) =>
              /\ last'.outcome \in {"ok", "ValueError"}
              /\ last'.outcome = "ValueError" =>
                    Len(t.values) # Len(DataIndex(d))
              /\ last'.outcome = "ok" =>
                    /\ frame'.index = DataIndex(d)
                    /\ Len(t.values) = Len(DataIndex(d)) =>
                          frame'.cells[1] = t.values
      ]_vars

\* C8: on a table with a target column, assigning a named Series (with the
\* table's row labels) whose name differs from target_name warns, stores the
\* values under the existing target name and keeps target_name; an array
\* assignment changes target_name only on a table without a target column,
\* to the Series' name and without a warning.
C8_RenamedOnAssignment ==
    [][(last'.op = "set_target" /\ last'.arg.kind \in {"list", "Series"}) =>
        \A t \in ListInputs \cup SeriesInputs : SetTarget(t) =>
            /\ (/\ t.kind = "Series" /\ t.name # NoName
                /\ has_target(frame, target_name)
                /\ t.name # target_name
                /\ t.index = frame.index) =>
                    /\ last'.outcome = "ok"
                    /\ last'.warnings = 1
                    /\ target_name' = target_name
                    /\ frame'.kind = "DataFrame"
                    /\ has_target(frame', target_name')
                    /\ TargetValues(frame', target_name') = t.values
            /\ target_name' # target_name =>
                    /\ ~has_target(frame, target_name)
                    /\ t.kind = "Series"
                    /\ target_name' = t.name
                    /\ last'.warnings = 0
      ]_vars

\* C9: a dispatch call on a table with data columns invokes the estimator's
\* method with them; with a target column it is first invoked with y and a
\* second time, without y, only when the method's signature takes no y;
\* without a target column it is invoked once, without y.  A method that
\* takes y is invoked once.
C9_InvocationProtocol ==
    [][(/\ last'.op \in Methods
        /\ last'.op \in EstimatorObj(last'.arg.name).methods
        /\ has_data(frame, target_name)) =>
        LET calls == last'.calls
            takesY == last'.op \in EstimatorObj(last'.arg.name).accepts_y
        IN /\ Len(calls) \in {1, 2}
           /\ IF has_target(frame, target_name)
              THEN /\ calls[1].y
                   /\ Len(calls) = 2 => (~calls[2].y /\ ~takesY)
              ELSE Len(calls) = 1 /\ ~calls[1].y
           /\ takesY => Len(calls) = 1
      ]_vars

\* C10: the column identifiers of a constructed table are unique.
C10_UniqueColumns ==
    frame.kind = "DataFrame" =>
        Cardinality(Range(frame.columns)) = Len(frame.columns)

\* C11: a constructed table has data columns or a target column, whatever
\* assignments and deletions were made on it and whether they succeeded, also
\* when the data given to the constructor or assigned had no columns.
C11_DataOrTarget ==
    frame.kind = "DataFrame" =>
        has_data(frame, target_name) \/ has_target(frame, target_name)

\* C12: an assignment to target that raises a ValueError (an identifier that
\* is no column, an array of another length or with other row labels) leaves
\* the columns, their contents, the row labels and target_name as they were,
\* also on a table without a target column that is given a named Series.
C12_FailedTargetAssignment ==
    [][(last'.op = "set_target" /\ last'.outcome = "ValueError") =>
        \A t \in TargetInputs : SetTarget(t) =>
            /\ frame' = frame
            /\ target_name' = target_name
      ]_vars

\* whether the estimator's method returned in the operation recorded by l:
\* its last invocation ended without an exception
MethodReturned(l) ==
    /\ l.calls # NoCalls
    /\ l.calls[Len(l.calls)].outcome = "ok"

\* every cached result that is set was produced on the estimator now cached,
\* and none is set while no estimator is cached
CachesOfCurrentEstimator ==
    \A p \in Properties :
        Self[p].kind # "None" =>
            /\ estimator # NoEstimator.id
            /\ Self[p].kind = "result"
            /\ Self[p].by = estimator

\* C13 as stated: every cached result (predicted, proba, log_proba, decision)
\* that is set was produced by a dispatch call on the estimator object now
\* cached, and none is set while no estimator is cached; a dispatch call with
\* the estimator object already cached leaves the other caches as they were,
\* a dispatch call with another estimator object unsets them.
C13_EveryCallWithAnotherEstimatorUnsets ==
    /\ []CachesOfCurrentEstimator
    /\ [][(last'.op \in Methods) =>
            \A p \in Properties \ {StoredBy(last'.op)} :
                IF estimator = last'.arg.name
                THEN Self'[p] = Self[p]
                ELSE Self'[p].kind = "None"
         ]_vars

\* C13 amended: every cached result that is set was produced by a dispatch
\* call on the estimator object now cached, and none is set while no estimator
\* is cached.  A dispatch call (or a read of a cached property) in which the
\* estimator's method returned attaches its estimator, leaves the other caches
\* as they were when that is the object already cached and unsets them when it
\* is another object; a call in which the method is missing or raises leaves
\* the cached estimator and all four caches as they were, whichever estimator
\* it was made with.
C13_CachesOfCurrentEstimator ==
    /\ []CachesOfCurrentEstimator
    /\ [][(last'.op \in Methods \cup Properties) =>
            IF MethodReturned(last')
            THEN /\ estimator' = last'.arg.name
                 /\ \A p \in Properties \ {StoredBy(MethodOf(last'.op))} :
                       IF estimator = last'.arg.name
                       THEN Self'[p] = Self[p]
                       ELSE Self'[p].kind = "None"
            ELSE Self' = Self
         ]_vars

\* C13 witness: a decision_function call on the estimator already cached has
\* stored its result beside the predictions and log probabilities that
\* earlier calls on that estimator had cached.
C13_Witness ==
    /\ last.op = "decision_function" /\ last.outcome = "ok"
    /\ estimator = Classifier.id /\ last.arg.name = estimator
    /\ decision.kind = "result" /\ decision.by = estimator
    /\ predicted.kind = "result" /\ predicted.by = estimator
    /\ log_proba.kind = "result" /\ log_proba.by = estimator

====
